---- MODULE Spec2Model ----
(***************************************************************************)
(* Verification model of the FDD document processors:                      *)
(*   fdd_section_analyzer.py   (FDDSectionAnalyzer)                        *)
(*   fdd_document_organizer.py (FDDDocumentOrganizer)                      *)
(*   fdd_info_extractor.py     (FDDInfoExtractor.extract_first_20_pages)   *)
(*                                                                         *)
(* A document is the 'texts' list of a Docling JSON file.  Each entry is   *)
(* a record                                                                *)
(*   ref     position in the list (stands for self_ref "#/texts/<ref>")    *)
(*   text    the 'text' string                                             *)
(*   label   the 'label' string                                            *)
(*   prov    "absent"  no 'prov' key                                       *)
(*           "empty"   'prov': []                                          *)
(*           "nopage"  'prov': [{bbox}] without 'page_no'                   *)
(*           "ok"      'prov': [{page_no, bbox}]                            *)
(*   page_no, t, l   prov[0].page_no, prov[0].bbox.t, prov[0].bbox.l       *)
(*           (0 where the key does not exist)                              *)
(***************************************************************************)
EXTENDS Integers, Sequences, FiniteSets, TLC

VARIABLES
    doc,          \* the loaded document: sequence of text entries
    sections,     \* outcome of analyze_fdd_sections: [status, val]
    documents,    \* table documents: sequence of rows [id, file_path]
    sectionRows,  \* table sections: sequence of rows
    contentRows,  \* table section_content: sequence of rows
    nextSectionId,\* AUTOINCREMENT counter of table sections
    returned,     \* what each process_document call returned, in call order
    seqCall,      \* the last call of _get_sorted_texts or extract_first_20_pages
    validation,   \* outcome of validate_sections: [status, val]
    history,      \* the outcomes of the earlier runs of analysis and validation
    detection,    \* the last call of _detect_item_number
    pipeline      \* the run of the processing pipeline

vars == <<doc, sections, documents, sectionRows, contentRows, nextSectionId,
          returned, seqCall, validation, history, detection, pipeline>>

---------------------------------------------------------------------------
(* Bounds of the model *)

MaxFrags == 2
MaxPage == 2
MaxCoord == 1
MaxCalls == 3
MaxRetries == 3

(* Program constants *)

NumItems == 23
FuzzyThreshold == 80
FirstPages == 20
ForwardMargin == 20
BackwardMargin == 3
DefaultRetries == 3

Items == 1..NumItems

\* f"ITEM {item_num}: {self.FDD_ITEMS[item_num]}"
StandardTitle ==
    <<"ITEM 1: THE FRANCHISOR, AND ANY PARENTS, PREDECESSORS AND AFFILIATES",
      "ITEM 2: BUSINESS EXPERIENCE",
      "ITEM 3: LITIGATION",
      "ITEM 4: BANKRUPTCY",
      "ITEM 5: INITIAL FEES",
      "ITEM 6: OTHER FEES",
      "ITEM 7: ESTIMATED INITIAL INVESTMENT",
      "ITEM 8: RESTRICTIONS ON SOURCES OF PRODUCTS AND SERVICES",
      "ITEM 9: FRANCHISEE'S OBLIGATIONS",
      "ITEM 10: FINANCING",
      "ITEM 11: FRANCHISOR'S ASSISTANCE, ADVERTISING, COMPUTER SYSTEMS AND TRAINING",
      "ITEM 12: TERRITORY",
      "ITEM 13: TRADEMARKS",
      "ITEM 14: PATENTS, COPYRIGHTS AND PROPRIETARY INFORMATION",
      "ITEM 15: OBLIGATION TO PARTICIPATE IN THE ACTUAL OPERATION OF THE FRANCHISE BUSINESS",
      "ITEM 16: RESTRICTIONS ON WHAT THE FRANCHISEE MAY SELL",
      "ITEM 17: RENEWAL, TERMINATION, TRANSFER AND DISPUTE RESOLUTION",
      "ITEM 18: PUBLIC FIGURES",
      "ITEM 19: FINANCIAL PERFORMANCE REPRESENTATIONS",
      "ITEM 20: OUTLETS AND FRANCHISEE INFORMATION",
      "ITEM 21: FINANCIAL STATEMENTS",
      "ITEM 22: CONTRACTS",
      "ITEM 23: RECEIPTS">>

---------------------------------------------------------------------------
(* Header texts and their lexical structure *)

Texts ==
    { "ITEM 3: LITIGATION", "ITEM 4: BANKRUPTCY", "BANKRUPTCY", "SECTION 5",
      "5. INITIAL FEES", "V. INITIAL FEES", "TABLE OF CONTENTS" }

\* The text upper-cased and cut into words, numerals and punctuation marks;
\* consecutive tokens are separated by whitespace except before "." and ":".
Tokens(text) ==
    CASE text = "ITEM 3: LITIGATION" -> <<"ITEM", "3", ":", "LITIGATION">>
      [] text = "ITEM 4: BANKRUPTCY" -> <<"ITEM", "4", ":", "BANKRUPTCY">>
      [] text = "BANKRUPTCY"         -> <<"BANKRUPTCY">>
      [] text = "SECTION 5"          -> <<"SECTION", "5">>
      [] text = "5. INITIAL FEES"    -> <<"5", ".", "INITIAL", "FEES">>
      [] text = "V. INITIAL FEES"    -> <<"V", ".", "INITIAL", "FEES">>
      [] text = "TABLE OF CONTENTS"  -> <<"TABLE", "OF", "CONTENTS">>
      [] text = "ITEM 1: THE FRANCHISOR, AND ANY PARENTS, PREDECESSORS AND AFFILIATES" ->
            <<"ITEM", "1", ":", "THE", "FRANCHISOR", ",", "AND", "ANY", "PARENTS", ",", "PREDECESSORS", "AND", "AFFILIATES">>
      [] text = "ITEM 2: BUSINESS EXPERIENCE" ->
            <<"ITEM", "2", ":", "BUSINESS", "EXPERIENCE">>
      [] text = "ITEM 5: INITIAL FEES" ->
            <<"ITEM", "5", ":", "INITIAL", "FEES">>
      [] text = "ITEM 6: OTHER FEES" ->
            <<"ITEM", "6", ":", "OTHER", "FEES">>
      [] text = "ITEM 7: ESTIMATED INITIAL INVESTMENT" ->
            <<"ITEM", "7", ":", "ESTIMATED", "INITIAL", "INVESTMENT">>
      [] text = "ITEM 8: RESTRICTIONS ON SOURCES OF PRODUCTS AND SERVICES" ->
            <<"ITEM", "8", ":", "RESTRICTIONS", "ON", "SOURCES", "OF", "PRODUCTS", "AND", "SERVICES">>
      [] text = "ITEM 9: FRANCHISEE'S OBLIGATIONS" ->
            <<"ITEM", "9", ":", "FRANCHISEE", "'", "S", "OBLIGATIONS">>
      [] text = "ITEM 10: FINANCING" ->
            <<"ITEM", "10", ":", "FINANCING">>
      [] text = "ITEM 11: FRANCHISOR'S ASSISTANCE, ADVERTISING, COMPUTER SYSTEMS AND TRAINING" ->
            <<"ITEM", "11", ":", "FRANCHISOR", "'", "S", "ASSISTANCE", ",", "ADVERTISING", ",", "COMPUTER", "SYSTEMS", "AND", "TRAINING">>
      [] text = "ITEM 12: TERRITORY" ->
            <<"ITEM", "12", ":", "TERRITORY">>
      [] text = "ITEM 13: TRADEMARKS" ->
            <<"ITEM", "13", ":", "TRADEMARKS">>
      [] text = "ITEM 14: PATENTS, COPYRIGHTS AND PROPRIETARY INFORMATION" ->
            <<"ITEM", "14", ":", "PATENTS", ",", "COPYRIGHTS", "AND", "PROPRIETARY", "INFORMATION">>
      [] text = "ITEM 15: OBLIGATION TO PARTICIPATE IN THE ACTUAL OPERATION OF THE FRANCHISE BUSINESS" ->
            <<"ITEM", "15", ":", "OBLIGATION", "TO", "PARTICIPATE", "IN", "THE", "ACTUAL", "OPERATION", "OF", "THE", "FRANCHISE", "BUSINESS">>
      [] text = "ITEM 16: RESTRICTIONS ON WHAT THE FRANCHISEE MAY SELL" ->
            <<"ITEM", "16", ":", "RESTRICTIONS", "ON", "WHAT", "THE", "FRANCHISEE", "MAY", "SELL">>
      [] text = "ITEM 17: RENEWAL, TERMINATION, TRANSFER AND DISPUTE RESOLUTION" ->
            <<"ITEM", "17", ":", "RENEWAL", ",", "TERMINATION", ",", "TRANSFER", "AND", "DISPUTE", "RESOLUTION">>
      [] text = "ITEM 18: PUBLIC FIGURES" ->
            <<"ITEM", "18", ":", "PUBLIC", "FIGURES">>
      [] text = "ITEM 19: FINANCIAL PERFORMANCE REPRESENTATIONS" ->
            <<"ITEM", "19", ":", "FINANCIAL", "PERFORMANCE", "REPRESENTATIONS">>
      [] text = "ITEM 20: OUTLETS AND FRANCHISEE INFORMATION" ->
            <<"ITEM", "20", ":", "OUTLETS", "AND", "FRANCHISEE", "INFORMATION">>
      [] text = "ITEM 21: FINANCIAL STATEMENTS" ->
            <<"ITEM", "21", ":", "FINANCIAL", "STATEMENTS">>
      [] text = "ITEM 22: CONTRACTS" ->
            <<"ITEM", "22", ":", "CONTRACTS">>
      [] text = "ITEM 23: RECEIPTS" ->
            <<"ITEM", "23", ":", "RECEIPTS">>
      [] text = "5. ITEM 3"          -> <<"5", ".", "ITEM", "3">>
      [] text = "V. ITEM 3"          -> <<"V", ".", "ITEM", "3">>
      [] OTHER                       -> <<>>

\* int(s) for a token that is a decimal numeral of an item, 0 for any other token
NumeralValue(tok) ==
    IF \E n \in Items : ToString(n) = tok
    THEN CHOOSE n \in Items : ToString(n) = tok
    ELSE 0

\* re.search(rf'ITEM\s+{item_num}\b', text, re.IGNORECASE)
ExactMatch(text, item_num) ==
    LET toks == Tokens(text)
    IN  \E i \in 1..(Len(toks) - 1) :
            toks[i] = "ITEM" /\ toks[i + 1] = ToString(item_num)

---------------------------------------------------------------------------
(* thefuzz scores of the header texts against the 23 standard titles.      *)
(* Entry n of a tuple is the score against FDD_ITEMS[n].                    *)

\* fuzz.ratio(text.upper(), f"ITEM {n}: {FDD_ITEMS[n]}".upper())
Ratio1(text) ==
    CASE text = "ITEM 3: LITIGATION" ->
        <<30, 44, 100, 50, 58, 44, 48, 35, 60, 61, 32, 61, 54, 41, 31, 37, 40, 54, 44, 49, 51, 56, 57>>
      [] text = "ITEM 4: BANKRUPTCY" ->
        <<30, 49, 50, 100, 47, 44, 37, 32, 40, 56, 28, 56, 49, 38, 29, 31, 30, 44, 38, 36, 43, 56, 57>>
      [] text = "BANKRUPTCY" ->
        <<15, 22, 14, 71, 13, 7, 13, 15, 14, 21, 14, 21, 14, 18, 17, 13, 14, 12, 18, 15, 15, 21, 22>>
      [] text = "SECTION 5" ->
        <<16, 22, 37, 15, 28, 22, 22, 22, 29, 30, 16, 30, 14, 18, 15, 23, 17, 19, 22, 23, 21, 30, 23>>
      [] text = "5. INITIAL FEES" ->
        <<22, 29, 30, 18, 80, 42, 43, 25, 30, 24, 20, 24, 29, 23, 28, 29, 26, 37, 36, 24, 45, 30, 38>>
      [] text = "V. INITIAL FEES" ->
        <<22, 29, 30, 18, 74, 42, 43, 25, 30, 24, 20, 24, 29, 23, 26, 29, 26, 37, 36, 24, 45, 30, 38>>
      [] text = "TABLE OF CONTENTS" ->
        <<28, 32, 34, 34, 43, 46, 38, 27, 37, 34, 24, 40, 39, 27, 26, 31, 28, 35, 35, 30, 43, 57, 47>>
      [] text = "ITEM 1: THE FRANCHISOR, AND ANY PARENTS, PREDECESSORS AND AFFILIATES" ->
        <<100, 36, 30, 30, 34, 35, 38, 53, 48, 35, 58, 35, 34, 48, 43, 45, 48, 33, 49, 45, 45, 35, 33>>
      [] text = "ITEM 2: BUSINESS EXPERIENCE" ->
        <<36, 100, 44, 49, 51, 49, 44, 46, 44, 49, 35, 49, 39, 39, 38, 42, 36, 48, 44, 49, 50, 49, 55>>
      [] text = "ITEM 5: INITIAL FEES" ->
        <<34, 51, 58, 47, 100, 68, 61, 39, 46, 53, 31, 47, 56, 37, 38, 44, 39, 56, 52, 41, 65, 58, 54>>
      [] text = "ITEM 6: OTHER FEES" ->
        <<35, 49, 44, 44, 68, 100, 44, 38, 44, 44, 32, 56, 59, 35, 33, 48, 38, 54, 41, 46, 47, 61, 63>>
      [] text = "ITEM 7: ESTIMATED INITIAL INVESTMENT" ->
        <<38, 44, 48, 37, 61, 44, 100, 43, 44, 44, 39, 41, 44, 46, 42, 47, 47, 41, 49, 48, 62, 41, 45>>
      [] text = "ITEM 8: RESTRICTIONS ON SOURCES OF PRODUCTS AND SERVICES" ->
        <<53, 46, 35, 32, 39, 38, 43, 100, 41, 32, 45, 35, 37, 45, 46, 62, 53, 41, 43, 42, 40, 38, 38>>
      [] text = "ITEM 9: FRANCHISEE'S OBLIGATIONS" ->
        <<48, 44, 60, 40, 46, 44, 44, 41, 100, 52, 44, 44, 47, 45, 36, 47, 47, 44, 56, 64, 56, 48, 53>>
      [] text = "ITEM 10: FINANCING" ->
        <<35, 49, 61, 56, 53, 44, 44, 32, 52, 100, 36, 50, 49, 38, 29, 39, 35, 59, 50, 46, 68, 56, 51>>
      [] text = "ITEM 11: FRANCHISOR'S ASSISTANCE, ADVERTISING, COMPUTER SYSTEMS AND TRAINING" ->
        <<58, 35, 32, 28, 31, 32, 39, 45, 44, 36, 100, 32, 32, 48, 44, 42, 48, 34, 49, 44, 42, 30, 30>>
      [] text = "ITEM 12: TERRITORY" ->
        <<35, 49, 61, 56, 47, 56, 41, 35, 44, 50, 32, 100, 59, 43, 27, 42, 38, 49, 41, 46, 47, 61, 63>>
      [] text = "ITEM 13: TRADEMARKS" ->
        <<34, 39, 54, 49, 56, 59, 44, 37, 47, 49, 32, 59, 100, 40, 29, 42, 37, 52, 43, 42, 54, 59, 61>>
      [] text = "ITEM 14: PATENTS, COPYRIGHTS AND PROPRIETARY INFORMATION" ->
        <<48, 39, 41, 38, 37, 35, 46, 45, 45, 38, 48, 43, 40, 100, 44, 42, 51, 35, 51, 63, 42, 38, 33>>
      [] text = "ITEM 15: OBLIGATION TO PARTICIPATE IN THE ACTUAL OPERATION OF THE FRANCHISE BUSINESS" ->
        <<43, 38, 31, 29, 38, 33, 42, 46, 36, 29, 44, 27, 29, 44, 100, 54, 48, 34, 46, 43, 39, 29, 28>>
      [] text = "ITEM 16: RESTRICTIONS ON WHAT THE FRANCHISEE MAY SELL" ->
        <<45, 42, 37, 31, 44, 48, 47, 62, 47, 39, 42, 42, 42, 42, 54, 100, 52, 39, 46, 54, 44, 42, 37>>
      [] text = "ITEM 17: RENEWAL, TERMINATION, TRANSFER AND DISPUTE RESOLUTION" ->
        <<48, 36, 40, 30, 39, 38, 47, 53, 47, 35, 48, 38, 37, 51, 48, 52, 100, 40, 52, 50, 42, 35, 35>>
      [] text = "ITEM 18: PUBLIC FIGURES" ->
        <<33, 48, 54, 44, 56, 54, 41, 41, 44, 59, 34, 49, 52, 35, 34, 39, 40, 100, 43, 39, 50, 49, 50>>
      [] text = "ITEM 19: FINANCIAL PERFORMANCE REPRESENTATIONS" ->
        <<49, 44, 44, 38, 52, 41, 49, 43, 56, 50, 49, 41, 43, 51, 46, 46, 52, 43, 100, 52, 64, 44, 41>>
      [] text = "ITEM 20: OUTLETS AND FRANCHISEE INFORMATION" ->
        <<45, 49, 49, 36, 41, 46, 48, 42, 64, 46, 44, 46, 42, 63, 43, 54, 50, 39, 52, 100, 50, 46, 43>>
      [] text = "ITEM 21: FINANCIAL STATEMENTS" ->
        <<45, 50, 51, 43, 65, 47, 62, 40, 56, 68, 42, 47, 54, 42, 39, 44, 42, 50, 64, 50, 100, 55, 52>>
      [] text = "ITEM 22: CONTRACTS" ->
        <<35, 49, 56, 56, 58, 61, 41, 38, 48, 56, 30, 61, 59, 38, 29, 42, 35, 49, 44, 46, 55, 100, 69>>
      [] text = "ITEM 23: RECEIPTS" ->
        <<33, 55, 57, 57, 54, 63, 45, 38, 53, 51, 30, 63, 61, 33, 28, 37, 35, 50, 41, 43, 52, 69, 100>>

\* fuzz.ratio(text.upper(), FDD_ITEMS[n].upper())
Ratio2(text) ==
    CASE text = "ITEM 3: LITIGATION" ->
        <<23, 27, 71, 14, 33, 21, 43, 24, 52, 30, 26, 37, 29, 37, 26, 23, 31, 25, 36, 42, 32, 22, 23>>
      [] text = "ITEM 4: BANKRUPTCY" ->
        <<23, 27, 29, 71, 20, 21, 30, 27, 29, 30, 21, 37, 36, 31, 22, 26, 28, 19, 29, 31, 32, 22, 23>>
      [] text = "BANKRUPTCY" ->
        <<17, 28, 20, 100, 18, 10, 16, 17, 18, 32, 16, 32, 20, 21, 19, 15, 16, 17, 21, 18, 20, 32, 33>>
      [] text = "SECTION 5" ->
        <<17, 29, 42, 11, 29, 21, 27, 25, 36, 33, 18, 33, 11, 21, 17, 26, 19, 17, 26, 28, 21, 33, 35>>
      [] text = "5. INITIAL FEES" ->
        <<24, 29, 32, 16, 89, 48, 51, 25, 26, 25, 22, 17, 32, 26, 27, 31, 29, 34, 38, 24, 51, 33, 26>>
      [] text = "V. INITIAL FEES" ->
        <<24, 29, 32, 16, 89, 48, 51, 25, 26, 25, 22, 17, 32, 26, 27, 31, 29, 34, 38, 24, 51, 33, 26>>
      [] text = "TABLE OF CONTENTS" ->
        <<31, 28, 30, 22, 48, 44, 44, 31, 34, 23, 26, 23, 30, 28, 26, 30, 29, 39, 37, 35, 43, 46, 40>>
      [] text = "ITEM 1: THE FRANCHISOR, AND ANY PARENTS, PREDECESSORS AND AFFILIATES" ->
        <<94, 23, 18, 15, 22, 21, 31, 47, 37, 18, 50, 18, 18, 40, 38, 41, 41, 17, 38, 37, 32, 21, 18>>
      [] text = "ITEM 2: BUSINESS EXPERIENCE" ->
        <<30, 83, 27, 22, 31, 27, 40, 37, 27, 22, 30, 22, 22, 30, 31, 31, 30, 24, 34, 36, 26, 17, 23>>
      [] text = "ITEM 5: INITIAL FEES" ->
        <<28, 31, 33, 13, 75, 47, 58, 32, 32, 21, 23, 28, 33, 30, 32, 31, 33, 29, 35, 30, 45, 28, 29>>
      [] text = "ITEM 6: OTHER FEES" ->
        <<28, 38, 21, 7, 47, 71, 35, 33, 29, 7, 28, 30, 36, 28, 30, 39, 31, 31, 33, 31, 32, 30, 31>>
      [] text = "ITEM 7: ESTIMATED INITIAL INVESTMENT" ->
        <<31, 29, 30, 13, 42, 26, 88, 31, 33, 22, 33, 18, 22, 36, 40, 35, 36, 20, 36, 37, 46, 18, 23>>
      [] text = "ITEM 8: RESTRICTIONS ON SOURCES OF PRODUCTS AND SERVICES" ->
        <<48, 32, 21, 15, 26, 24, 31, 92, 28, 15, 39, 25, 21, 37, 43, 54, 44, 23, 32, 33, 26, 22, 22>>
      [] text = "ITEM 9: FRANCHISEE'S OBLIGATIONS" ->
        <<43, 27, 43, 14, 32, 33, 37, 32, 86, 29, 34, 29, 29, 38, 36, 45, 45, 26, 46, 64, 38, 29, 30>>
      [] text = "ITEM 10: FINANCING" ->
        <<26, 32, 43, 21, 27, 29, 39, 24, 33, 67, 28, 22, 29, 28, 26, 29, 25, 31, 29, 38, 42, 22, 23>>
      [] text = "ITEM 11: FRANCHISOR'S ASSISTANCE, ADVERTISING, COMPUTER SYSTEMS AND TRAINING" ->
        <<54, 25, 19, 14, 20, 19, 33, 39, 34, 21, 94, 21, 19, 39, 38, 33, 40, 20, 39, 42, 29, 16, 17>>
      [] text = "ITEM 12: TERRITORY" ->
        <<23, 32, 36, 21, 27, 29, 35, 27, 29, 15, 24, 67, 29, 31, 24, 29, 28, 25, 29, 31, 32, 22, 31>>
      [] text = "ITEM 13: TRADEMARKS" ->
        <<25, 26, 21, 14, 32, 34, 34, 33, 23, 14, 26, 29, 69, 27, 23, 35, 31, 30, 29, 34, 36, 29, 22>>
      [] text = "ITEM 14: PATENTS, COPYRIGHTS AND PROPRIETARY INFORMATION" ->
        <<43, 27, 27, 18, 24, 18, 38, 38, 32, 18, 44, 25, 21, 91, 40, 32, 42, 17, 41, 53, 29, 22, 16>>
      [] text = "ITEM 15: OBLIGATION TO PARTICIPATE IN THE ACTUAL OPERATION OF THE FRANCHISE BUSINESS" ->
        <<39, 27, 19, 17, 25, 21, 34, 39, 26, 15, 36, 15, 15, 37, 94, 47, 39, 20, 36, 34, 27, 17, 15>>
      [] text = "ITEM 16: RESTRICTIONS ON WHAT THE FRANCHISEE MAY SELL" ->
        <<37, 28, 22, 13, 31, 29, 35, 53, 34, 19, 33, 29, 22, 32, 50, 91, 42, 21, 33, 46, 27, 26, 20>>
      [] text = "ITEM 17: RENEWAL, TERMINATION, TRANSFER AND DISPUTE RESOLUTION" ->
        <<41, 25, 25, 14, 27, 22, 36, 44, 35, 17, 40, 23, 22, 40, 45, 42, 92, 24, 42, 42, 29, 20, 20>>
      [] text = "ITEM 18: PUBLIC FIGURES" ->
        <<27, 33, 24, 12, 40, 36, 35, 34, 34, 25, 24, 25, 30, 26, 29, 27, 29, 76, 27, 28, 28, 19, 26>>
      [] text = "ITEM 19: FINANCIAL PERFORMANCE REPRESENTATIONS" ->
        <<43, 28, 29, 18, 34, 25, 43, 36, 40, 29, 39, 22, 25, 41, 41, 38, 44, 23, 89, 48, 48, 25, 22>>
      [] text = "ITEM 20: OUTLETS AND FRANCHISEE INFORMATION" ->
        <<37, 29, 30, 15, 25, 26, 37, 40, 51, 27, 40, 23, 23, 58, 41, 46, 44, 21, 42, 88, 35, 23, 20>>
      [] text = "ITEM 21: FINANCIAL STATEMENTS" ->
        <<38, 29, 31, 15, 44, 36, 56, 31, 38, 42, 29, 21, 26, 32, 33, 36, 34, 28, 48, 44, 82, 26, 27>>
      [] text = "ITEM 22: CONTRACTS" ->
        <<28, 27, 29, 21, 33, 29, 35, 30, 33, 30, 26, 30, 36, 31, 28, 32, 28, 25, 33, 35, 37, 67, 31>>
      [] text = "ITEM 23: RECEIPTS" ->
        <<29, 39, 30, 22, 41, 44, 36, 31, 29, 23, 21, 38, 37, 25, 24, 26, 29, 32, 33, 35, 38, 38, 64>>

\* fuzz.partial_token_sort_ratio(text.upper(), f"ITEM {n}: {FDD_ITEMS[n]}".upper())
TokenRatio(text) ==
    CASE text = "ITEM 3: LITIGATION" ->
        <<47, 45, 100, 45, 48, 50, 59, 48, 82, 45, 53, 62, 64, 53, 82, 53, 59, 55, 54, 53, 61, 45, 69>>
      [] text = "ITEM 4: BANKRUPTCY" ->
        <<53, 56, 43, 100, 53, 43, 58, 59, 53, 57, 53, 42, 42, 53, 47, 53, 59, 44, 53, 53, 53, 56, 48>>
      [] text = "BANKRUPTCY" ->
        <<40, 29, 27, 100, 24, 18, 30, 40, 35, 32, 32, 38, 29, 46, 40, 40, 40, 29, 40, 40, 33, 30, 33>>
      [] text = "SECTION 5" ->
        <<33, 50, 62, 29, 56, 35, 53, 67, 50, 44, 44, 44, 33, 44, 56, 67, 56, 29, 67, 44, 44, 53, 44>>
      [] text = "5. INITIAL FEES" ->
        <<43, 50, 52, 32, 100, 70, 64, 43, 50, 48, 46, 37, 40, 43, 50, 50, 43, 52, 54, 50, 54, 40, 43>>
      [] text = "V. INITIAL FEES" ->
        <<43, 43, 44, 32, 93, 62, 79, 43, 50, 38, 46, 36, 36, 50, 50, 50, 43, 50, 52, 50, 52, 40, 38>>
      [] text = "TABLE OF CONTENTS" ->
        <<50, 42, 33, 33, 44, 46, 52, 45, 41, 38, 41, 37, 40, 53, 47, 47, 53, 39, 35, 56, 42, 58, 33>>
      [] text = "ITEM 1: THE FRANCHISOR, AND ANY PARENTS, PREDECESSORS AND AFFILIATES" ->
        <<100, 48, 47, 53, 47, 53, 46, 50, 61, 65, 57, 53, 50, 58, 48, 58, 46, 50, 51, 57, 61, 59, 62>>
      [] text = "ITEM 2: BUSINESS EXPERIENCE" ->
        <<48, 100, 45, 56, 57, 54, 57, 47, 47, 59, 46, 47, 43, 42, 69, 45, 44, 44, 47, 46, 51, 56, 50>>
      [] text = "ITEM 5: INITIAL FEES" ->
        <<47, 57, 48, 53, 100, 65, 68, 48, 50, 60, 47, 45, 45, 58, 58, 49, 47, 53, 67, 63, 67, 60, 48>>
      [] text = "ITEM 6: OTHER FEES" ->
        <<53, 54, 52, 45, 65, 100, 52, 55, 59, 45, 53, 64, 59, 53, 55, 59, 53, 61, 47, 60, 48, 52, 52>>
      [] text = "ITEM 7: ESTIMATED INITIAL INVESTMENT" ->
        <<46, 57, 59, 58, 68, 52, 100, 43, 39, 55, 43, 45, 47, 49, 49, 45, 52, 47, 47, 47, 58, 58, 48>>
      [] text = "ITEM 8: RESTRICTIONS ON SOURCES OF PRODUCTS AND SERVICES" ->
        <<50, 47, 48, 59, 48, 55, 43, 100, 54, 59, 47, 48, 44, 47, 49, 60, 49, 48, 55, 48, 46, 53, 50>>
      [] text = "ITEM 9: FRANCHISEE'S OBLIGATIONS" ->
        <<61, 47, 82, 53, 50, 59, 39, 54, 100, 65, 58, 53, 44, 52, 87, 74, 52, 59, 56, 66, 57, 59, 50>>
      [] text = "ITEM 10: FINANCING" ->
        <<65, 59, 43, 55, 60, 50, 55, 59, 65, 100, 65, 50, 50, 65, 65, 65, 53, 62, 82, 65, 82, 56, 48>>
      [] text = "ITEM 11: FRANCHISOR'S ASSISTANCE, ADVERTISING, COMPUTER SYSTEMS AND TRAINING" ->
        <<57, 46, 53, 53, 47, 53, 43, 47, 58, 65, 100, 53, 56, 50, 49, 53, 46, 45, 48, 55, 61, 59, 50>>
      [] text = "ITEM 12: TERRITORY" ->
        <<53, 47, 61, 45, 45, 64, 45, 48, 53, 45, 53, 100, 67, 59, 57, 47, 47, 48, 59, 60, 55, 45, 67>>
      [] text = "ITEM 13: TRADEMARKS" ->
        <<50, 43, 64, 42, 45, 59, 47, 44, 44, 50, 56, 67, 100, 50, 41, 56, 61, 48, 50, 58, 65, 43, 64>>
      [] text = "ITEM 14: PATENTS, COPYRIGHTS AND PROPRIETARY INFORMATION" ->
        <<58, 42, 53, 53, 58, 53, 49, 47, 52, 65, 50, 59, 50, 100, 50, 47, 49, 45, 51, 71, 61, 59, 56>>
      [] text = "ITEM 15: OBLIGATION TO PARTICIPATE IN THE ACTUAL OPERATION OF THE FRANCHISE BUSINESS" ->
        <<48, 69, 82, 47, 58, 55, 49, 49, 87, 65, 49, 57, 41, 50, 100, 56, 51, 55, 51, 60, 50, 53, 50>>
      [] text = "ITEM 16: RESTRICTIONS ON WHAT THE FRANCHISEE MAY SELL" ->
        <<58, 45, 53, 53, 49, 59, 45, 60, 74, 65, 53, 47, 56, 47, 56, 100, 55, 54, 63, 56, 58, 59, 56>>
      [] text = "ITEM 17: RENEWAL, TERMINATION, TRANSFER AND DISPUTE RESOLUTION" ->
        <<46, 44, 59, 59, 47, 53, 52, 49, 52, 53, 46, 47, 61, 49, 51, 55, 100, 52, 53, 48, 55, 50, 56>>
      [] text = "ITEM 18: PUBLIC FIGURES" ->
        <<50, 44, 55, 44, 53, 61, 47, 48, 59, 62, 45, 48, 48, 45, 55, 54, 52, 100, 54, 50, 50, 50, 50>>
      [] text = "ITEM 19: FINANCIAL PERFORMANCE REPRESENTATIONS" ->
        <<51, 47, 54, 53, 67, 47, 47, 55, 56, 82, 48, 59, 50, 51, 51, 63, 53, 54, 100, 46, 75, 53, 50>>
      [] text = "ITEM 20: OUTLETS AND FRANCHISEE INFORMATION" ->
        <<57, 46, 53, 53, 63, 60, 47, 48, 66, 65, 55, 60, 58, 71, 60, 56, 48, 50, 46, 100, 57, 59, 62>>
      [] text = "ITEM 21: FINANCIAL STATEMENTS" ->
        <<61, 51, 61, 53, 67, 48, 58, 46, 57, 82, 61, 55, 65, 61, 50, 58, 55, 50, 75, 57, 100, 59, 62>>
      [] text = "ITEM 22: CONTRACTS" ->
        <<59, 56, 43, 56, 60, 50, 58, 53, 59, 56, 59, 50, 43, 59, 53, 59, 50, 50, 53, 59, 59, 100, 50>>
      [] text = "ITEM 23: RECEIPTS" ->
        <<62, 50, 69, 48, 48, 52, 48, 50, 50, 48, 50, 67, 64, 56, 50, 56, 56, 50, 50, 62, 62, 50, 100>>

Max3(a, b, c) ==
    IF a >= b /\ a >= c THEN a ELSE IF b >= c THEN b ELSE c

\* _fuzzy_match_header(text, item_num)
FuzzyMatchHeader(text, item_num) ==
    Max3(Ratio1(text)[item_num], Ratio2(text)[item_num],
         TokenRatio(text)[item_num]) > FuzzyThreshold

---------------------------------------------------------------------------
(* ITEM_PATTERNS: the number each numbering scheme extracts (0: no match)  *)

RECURSIVE FirstAfter(_, _, _)
\* value of the first numeral token that directly follows the word kw
FirstAfter(toks, kw, i) ==
    IF i >= Len(toks) THEN 0
    ELSE IF toks[i] = kw /\ NumeralValue(toks[i + 1]) > 0
         THEN NumeralValue(toks[i + 1])
         ELSE FirstAfter(toks, kw, i + 1)

\* 'standard': r'ITEM\s+(\d+)'
StandardNumber(text) == FirstAfter(Tokens(text), "ITEM", 1)

\* 'section': r'SECTION\s+(\d+)'
SectionNumber(text) == FirstAfter(Tokens(text), "SECTION", 1)

\* 'numbered': r'^\s*(\d+)\.'
NumberedNumber(text) ==
    LET toks == Tokens(text)
    IN  IF Len(toks) >= 2 /\ toks[2] = "." THEN NumeralValue(toks[1]) ELSE 0

\* value of a roman numeral (the analyzer calls self._roman_to_int)
RomanToInt(tok) ==
    CASE tok = "I" -> 1 [] tok = "II" -> 2 [] tok = "III" -> 3
      [] tok = "IV" -> 4 [] tok = "V" -> 5 [] tok = "VI" -> 6
      [] tok = "VII" -> 7 [] tok = "VIII" -> 8 [] tok = "IX" -> 9
      [] tok = "X" -> 10 [] tok = "XI" -> 11 [] tok = "XII" -> 12
      [] tok = "XIII" -> 13 [] tok = "XIV" -> 14 [] tok = "XV" -> 15
      [] tok = "XVI" -> 16 [] tok = "XVII" -> 17 [] tok = "XVIII" -> 18
      [] tok = "XIX" -> 19 [] tok = "XX" -> 20 [] tok = "XXI" -> 21
      [] tok = "XXII" -> 22 [] tok = "XXIII" -> 23
      [] OTHER -> 0

RECURSIVE FirstRoman(_, _)
\* 'roman': r'([IVX]+)\.', converted to an integer
FirstRoman(toks, i) ==
    IF i >= Len(toks) THEN 0
    ELSE IF RomanToInt(toks[i]) > 0 /\ toks[i + 1] = "."
         THEN RomanToInt(toks[i])
         ELSE FirstRoman(toks, i + 1)

RomanNumber(text) == FirstRoman(Tokens(text), 1)

\* the numbers the schemes of ITEM_PATTERNS extract from a text
SchemeNumbers(text) ==
    {StandardNumber(text), SectionNumber(text), NumberedNumber(text),
     RomanNumber(text)} \ {0}

\* _detect_item_number(text, item_num): the patterns are tried in the order
\* of ITEM_PATTERNS; a pattern whose number equals item_num returns
\* (True, pattern_name); reaching a match of the 'roman' pattern calls
\* self._roman_to_int, which the class does not define (AttributeError)
DetectItemNumber(text, item_num) ==
    IF StandardNumber(text) = item_num
    THEN [status |-> "ok", found |-> TRUE, pattern |-> "standard"]
    ELSE IF SectionNumber(text) = item_num
    THEN [status |-> "ok", found |-> TRUE, pattern |-> "section"]
    ELSE IF NumberedNumber(text) = item_num
    THEN [status |-> "ok", found |-> TRUE, pattern |-> "numbered"]
    ELSE IF FirstRoman(Tokens(text), 1) > 0
    THEN [status |-> "raised", found |-> FALSE, pattern |-> ""]
    ELSE [status |-> "ok", found |-> FALSE, pattern |-> ""]

\* SPECIAL_SECTIONS: any(keyword in text_content for keyword in info['keywords'])
HasSpecialKeyword(text) ==
    LET toks == Tokens(text)
    IN  \E i \in 1..Len(toks) :
            \/ toks[i] \in {"CONTENTS", "EXHIBIT", "APPENDIX", "INDEX"}
            \/ toks[i] = "TABLE" /\ i < Len(toks) /\ toks[i + 1] = "OF"

\* _analyze_document_structure evaluates text.get('prov', [{}])[0] for an entry
\* with a special keyword or with a decimal pattern number in 1..23 (int() of
\* a roman match raises ValueError, which is caught)
StructureReadsProv(text) ==
    \/ HasSpecialKeyword(text)
    \/ StandardNumber(text) \in Items
    \/ SectionNumber(text) \in Items
    \/ NumberedNumber(text) \in Items

\* _analyze_document_structure raises IndexError on 'prov': []
StructureRaises(d) ==
    \E i \in 1..Len(d) : d[i].prov = "empty" /\ StructureReadsProv(d[i].text)

---------------------------------------------------------------------------
(* FDDSectionAnalyzer.analyze_fdd_sections                                 *)

EmptyPage == -1   \* the default '' of header['page_no'], which is no int

SectionHeader == "section_header"

IsHeader(f) == f.label = SectionHeader

\* lines 217-224: the headers, in the order of the 'texts' list
AnalyzerHeaders(d) ==
    LET hs == SelectSeq(d, IsHeader)
    IN  [i \in 1..Len(hs) |->
            [text |-> hs[i].text,
             page_no |-> IF hs[i].prov = "ok" THEN hs[i].page_no ELSE EmptyPage,
             self_ref |-> hs[i].ref]]

\* text.get('prov', [{}])[0] raises IndexError for a header with 'prov': []
HeaderCollectionRaises(d) ==
    \E i \in 1..Len(d) : IsHeader(d[i]) /\ d[i].prov = "empty"

\* HeaderMatch without the fuzzy test of line 240
HeaderMatchExactOnly(text, item_num) ==
    IF ExactMatch(text, item_num) THEN "EXACT" ELSE ""

\* lines 232-243 for one header: "EXACT", "FUZZY" or "" (no match)
HeaderMatch(text, item_num) ==
    IF ExactMatch(text, item_num) THEN "EXACT"
    ELSE IF FuzzyMatchHeader(text, item_num) THEN "FUZZY"
    ELSE ""

RECURSIVE ScanHeaders(_, _, _)
\* lines 229-247: the inner loop over the headers from position i on
ScanHeaders(headers, item_num, i) ==
    IF i > Len(headers)
    THEN [item_num |-> item_num, text |-> "NOT FOUND", page_no |-> 0,
          found |-> FALSE, match_type |-> "MISSING"]
    ELSE IF HeaderMatch(headers[i].text, item_num) # ""
         THEN [item_num |-> item_num, text |-> headers[i].text,
               page_no |-> headers[i].page_no, found |-> TRUE,
               match_type |-> HeaderMatch(headers[i].text, item_num)]
         ELSE ScanHeaders(headers, item_num, i + 1)

\* lines 227-249: one entry per item of range(1, 24)
AnalyzeSections(d) ==
    [item_num \in Items |-> ScanHeaders(AnalyzerHeaders(d), item_num, 1)]

\* analyze_fdd_sections: the returned list, or the exception it ends with
analyze_fdd_sections(d) ==
    IF StructureRaises(d) \/ HeaderCollectionRaises(d)
    THEN [status |-> "raised", val |-> <<>>]
    ELSE [status |-> "ok", val |-> AnalyzeSections(d)]

---------------------------------------------------------------------------
(* FDDSectionAnalyzer.validate_sections                                    *)

\* the critical items without 21, 22 and 23
CriticalItemsThroughSeven == 1..7

\* line 154: [1, 2, 3, 4, 5, 6, 7, 21, 22, 23]
CriticalItems == {1, 2, 3, 4, 5, 6, 7, 21, 22, 23}

\* NumberInText accepting the number only behind the word ITEM
NumberAfterItemWord(text, item_num) == ExactMatch(text, item_num)

\* re.search(rf'\b{item_num}\b', text)
NumberInText(text, item_num) ==
    \E i \in 1..Len(Tokens(text)) : Tokens(text)[i] = ToString(item_num)

\* NonSequential with the tolerance of _validate_page_numbers (gap > 3)
NonSequentialBeyondMargin(page_no, prev_page) ==
    page_no < prev_page - BackwardMargin

\* line 144: page_no < prev_page
NonSequential(page_no, prev_page) == page_no < prev_page

\* line 148: prev_page > 0 and (page_no - prev_page) > 20
LargeGap(page_no, prev_page) ==
    prev_page > 0 /\ page_no - prev_page > ForwardMargin

\* lines 139-161: the issues of one entry, in the order they are appended
IssuesOf(e, prev_page) ==
    (IF e.found /\ NonSequential(e.page_no, prev_page)
     THEN <<"Non-sequential page number">> ELSE <<>>)
    \o (IF e.found /\ LargeGap(e.page_no, prev_page)
        THEN <<"Large page gap">> ELSE <<>>)
    \o (IF ~e.found /\ e.item_num \in CriticalItems
        THEN <<"Missing critical FDD Item">> ELSE <<>>)
    \o (IF e.found /\ ~NumberInText(e.text, e.item_num)
        THEN <<"Item number not found in header text">> ELSE <<>>)

RECURSIVE ValidateFrom(_, _, _)
\* lines 138-170: the loop from entry k on, prev_page as left by the entries
\* before k
ValidateFrom(secs, k, prev_page) ==
    IF k > Len(secs) THEN <<>>
    ELSE <<[item_num |-> secs[k].item_num, page |-> secs[k].page_no,
            found |-> secs[k].found, match_type |-> secs[k].match_type,
            text |-> secs[k].text, issues |-> IssuesOf(secs[k], prev_page)]>>
         \o ValidateFrom(secs, k + 1,
                         IF secs[k].found THEN secs[k].page_no ELSE prev_page)

\* page_no < prev_page raises TypeError when page_no is '' (a str)
ValidateRaises(secs) ==
    \E k \in 1..Len(secs) : secs[k].found /\ secs[k].page_no = EmptyPage

\* InitialPrevPage taken over from the run before: the page of its last
\* matched item
PrevPageOfLastRun ==
    IF history = <<>> \/ history[Len(history)].sections.status # "ok"
    THEN 0
    ELSE LET secs == history[Len(history)].sections.val
             matched == {n \in 1..Len(secs) : secs[n].found}
         IN  IF matched = {} THEN 0
             ELSE secs[CHOOSE n \in matched : \A m \in matched : m <= n].page_no

\* line 137: prev_page = 0, a local of every call
InitialPrevPage == 0

\* validate_sections: the returned list, or the exception it ends with
validate_sections(secs) ==
    IF ValidateRaises(secs)
    THEN [status |-> "raised", val |-> <<>>]
    ELSE [status |-> "ok", val |-> ValidateFrom(secs, 1, InitialPrevPage)]

---------------------------------------------------------------------------
(* Optional values: None is Python's None / SQL NULL *)

None == <<>>

Some(x) == <<x>>

---------------------------------------------------------------------------
(* Reading order: the sort key (page_no, -top, left)                       *)

\* KeyLess with left compared before top
KeyLessLeftFirst(a, b) ==
    \/ a.page_no < b.page_no
    \/ a.page_no = b.page_no /\ a.left < b.left
    \/ a.page_no = b.page_no /\ a.left = b.left /\ a.top > b.top

\* key(a) < key(b) for the key lambda x: (x['page_no'], -x['top'], x['left'])
KeyLess(a, b) ==
    \/ a.page_no < b.page_no
    \/ a.page_no = b.page_no /\ a.top > b.top
    \/ a.page_no = b.page_no /\ a.top = b.top /\ a.left < b.left

RECURSIVE InsertByKeyUnstable(_, _)
\* InsertByKey placing x in front of the elements with the same key
InsertByKeyUnstable(s, x) ==
    IF s = <<>> \/ KeyLess(s[Len(s)], x)
    THEN Append(s, x)
    ELSE Append(InsertByKeyUnstable(SubSeq(s, 1, Len(s) - 1), x), s[Len(s)])

RECURSIVE InsertByKey(_, _)
\* x placed into the ordered sequence s behind every element that is not
\* greater than x (list.sort is stable)
InsertByKey(s, x) ==
    IF s = <<>> \/ ~KeyLess(x, s[Len(s)])
    THEN Append(s, x)
    ELSE Append(InsertByKey(SubSeq(s, 1, Len(s) - 1), x), s[Len(s)])

RECURSIVE SortByKey(_)
\* list.sort(key=lambda x: (x['page_no'], -x['top'], x['left']))
SortByKey(s) ==
    IF s = <<>> THEN <<>>
    ELSE InsertByKey(SortByKey(SubSeq(s, 1, Len(s) - 1)), s[Len(s)])

\* 'prov' in text and text['prov']
HasProv(f) == f.prov \in {"nopage", "ok"}

\* prov.get('page_no', 0)
PageOf(f) == IF f.prov = "ok" THEN f.page_no ELSE 0

\* the dict built from an entry: text, page_no, top, left, self_ref
Positioned(f) ==
    [text |-> f.text, page_no |-> PageOf(f), top |-> f.t, left |-> f.l,
     self_ref |-> f.ref]

\* InRange with the page end_page included
InRangeInclusive(page_no, start_page, end_page) ==
    /\ start_page <= page_no
    /\ (end_page = None \/ page_no <= end_page[1])

\* start_page <= page_no and (end_page is None or page_no < end_page)
InRange(page_no, start_page, end_page) ==
    /\ start_page <= page_no
    /\ (end_page = None \/ page_no < end_page[1])

\* FDDDocumentOrganizer._get_sorted_texts
GetSortedTexts(d, start_page, end_page) ==
    LET Keep(f) == HasProv(f) /\ InRange(PageOf(f), start_page, end_page)
        kept == SelectSeq(d, Keep)
    IN  SortByKey([i \in 1..Len(kept) |-> Positioned(kept[i])])

\* FDDInfoExtractor.extract_first_20_pages: the entries whose texts are joined
ExtractFirst20Pages(d) ==
    LET Keep(f) == HasProv(f) /\ PageOf(f) <= FirstPages
        kept == SelectSeq(d, Keep)
    IN  SortByKey([i \in 1..Len(kept) |-> Positioned(kept[i])])

\* _identify_section_headers: text.get('prov', [{}])[0] raises IndexError
\* for a header with 'prov': []
IdentifyHeadersRaises(d) ==
    \E i \in 1..Len(d) : IsHeader(d[i]) /\ d[i].prov = "empty"

\* FDDDocumentOrganizer._identify_section_headers
IdentifySectionHeaders(d) ==
    LET hs == SelectSeq(d, IsHeader)
    IN  SortByKey([i \in 1..Len(hs) |-> Positioned(hs[i])])

---------------------------------------------------------------------------
(* FDDDocumentOrganizer: the database and process_document                 *)

FilePath == "document.json"

\* re.search(r'ITEM\s*(\d+)', header['text'], re.IGNORECASE): int or None
OrganizerItemNumber(text) ==
    IF StandardNumber(text) > 0 THEN Some(StandardNumber(text)) ELSE None

\* SectionRow with end_page the page of the next header itself
SectionRowNextPage(headers, i, document_id, id) ==
    [id |-> id,
     document_id |-> document_id,
     item_number |-> OrganizerItemNumber(headers[i].text),
     header_text |-> headers[i].text,
     start_page |-> headers[i].page_no,
     end_page |-> IF i + 1 <= Len(headers)
                  THEN Some(headers[i + 1].page_no)
                  ELSE None]

\* lines 171-193: the row of table sections stored for header i
SectionRow(headers, i, document_id, id) ==
    [id |-> id,
     document_id |-> document_id,
     item_number |-> OrganizerItemNumber(headers[i].text),
     header_text |-> headers[i].text,
     start_page |-> headers[i].page_no,
     end_page |-> IF i + 1 <= Len(headers)
                  THEN Some(headers[i + 1].page_no - 1)
                  ELSE None]

\* ContentRowsOf with the range ending at the recorded end_page (exclusive)
ContentRowsOfRecordedEnd(d, headers, i, id) ==
    LET section_texts ==
            GetSortedTexts(d, headers[i].page_no,
                           IF i + 1 <= Len(headers)
                           THEN Some(headers[i + 1].page_no - 1)
                           ELSE None)
    IN  [k \in 1..Len(section_texts) |->
            [section_id |-> id,
             text_content |-> section_texts[k].text,
             page_number |-> section_texts[k].page_no,
             original_ref |-> section_texts[k].self_ref,
             sequence_order |-> k - 1,
             bbox_top |-> section_texts[k].top,
             bbox_left |-> section_texts[k].left]]

\* ContentRowsOf with the range including the page of the next header
ContentRowsOfOverlapping(d, headers, i, id) ==
    LET section_texts ==
            GetSortedTexts(d, headers[i].page_no,
                           IF i + 1 <= Len(headers)
                           THEN Some(headers[i + 1].page_no + 1)
                           ELSE None)
    IN  [k \in 1..Len(section_texts) |->
            [section_id |-> id,
             text_content |-> section_texts[k].text,
             page_number |-> section_texts[k].page_no,
             original_ref |-> section_texts[k].self_ref,
             sequence_order |-> k - 1,
             bbox_top |-> section_texts[k].top,
             bbox_left |-> section_texts[k].left]]

\* lines 195-217: the rows of table section_content stored for header i
ContentRowsOf(d, headers, i, id) ==
    LET section_texts ==
            GetSortedTexts(d, headers[i].page_no,
                           IF i + 1 <= Len(headers)
                           THEN Some(headers[i + 1].page_no)
                           ELSE None)
    IN  [k \in 1..Len(section_texts) |->
            [section_id |-> id,
             text_content |-> section_texts[k].text,
             page_number |-> section_texts[k].page_no,
             original_ref |-> section_texts[k].self_ref,
             sequence_order |-> k - 1,
             bbox_top |-> section_texts[k].top,
             bbox_left |-> section_texts[k].left]]

RECURSIVE Flatten(_)
Flatten(ss) ==
    IF ss = <<>> THEN <<>> ELSE Head(ss) \o Flatten(Tail(ss))

RowsOfDocument(rows, document_id) ==
    LET Of(r) == r.document_id = document_id IN SelectSeq(rows, Of)

RowsOfOthers(rows, document_id) ==
    LET NotOf(r) == r.document_id # document_id IN SelectSeq(rows, NotOf)

\* lines 103-126: the id of the row of file_path, inserting it when absent
DocumentId(docs, file_path) ==
    IF \E i \in 1..Len(docs) : docs[i].file_path = file_path
    THEN docs[CHOOSE i \in 1..Len(docs) : docs[i].file_path = file_path].id
    ELSE Len(docs) + 1

\* DocumentsAfter inserting a row on every call
DocumentsAfterAlwaysInsert(docs, file_path) ==
    Append(docs, [id |-> Len(docs) + 1, file_path |-> file_path])

DocumentsAfter(docs, file_path) ==
    IF \E i \in 1..Len(docs) : docs[i].file_path = file_path
    THEN docs
    ELSE Append(docs, [id |-> Len(docs) + 1, file_path |-> file_path])

OtherFilePath == "other.json"

FilePaths == {FilePath, OtherFilePath}

\* what the second file holds: an item header and a line of text on page 1
OtherDocument ==
    <<[ref |-> 1, text |-> "ITEM 4: BANKRUPTCY", label |-> SectionHeader,
       prov |-> "ok", page_no |-> 1, t |-> 1, l |-> 0],
      [ref |-> 2, text |-> "BANKRUPTCY", label |-> "text",
       prov |-> "ok", page_no |-> 1, t |-> 0, l |-> 0]>>

\* lines 94-95: doc_data = json.load(f)
Content(json_path) == IF json_path = FilePath THEN doc ELSE OtherDocument

\* SkipsProcessing never skipping
SkipsNothing(existing_sections, overwrite) == FALSE

\* line 163: existing_sections and not self.overwrite
SkipsProcessing(existing_sections, overwrite) ==
    existing_sections /\ ~overwrite

\* DeletesExisting never deleting
DeletesNothing(existing_sections, overwrite) == FALSE

\* line 166: existing_sections and self.overwrite
DeletesExisting(existing_sections, overwrite) ==
    existing_sections /\ overwrite

\* process_document(json_path) of an organizer built with the given overwrite
ProcessDocument(json_path, overwrite) ==
    LET doc_data == Content(json_path)
        document_id == DocumentId(documents, json_path)
        headers == IdentifySectionHeaders(doc_data)
        existing_sections == RowsOfDocument(sectionRows, document_id) # <<>>
        kept == IF DeletesExisting(existing_sections, overwrite)
                THEN RowsOfOthers(sectionRows, document_id)
                ELSE sectionRows
        call == [json_path |-> json_path, overwrite |-> overwrite]
    IN  /\ Len(returned) < MaxCalls
        /\ documents' = DocumentsAfter(documents, json_path)
        /\ IF IdentifyHeadersRaises(doc_data)
           THEN /\ returned' = Append(returned,
                        [status |-> "raised", id |-> 0, call |-> call])
                /\ UNCHANGED <<sectionRows, contentRows, nextSectionId>>
           ELSE /\ returned' = Append(returned,
                        [status |-> "ok", id |-> document_id, call |-> call])
                /\ IF SkipsProcessing(existing_sections, overwrite)
                   THEN UNCHANGED <<sectionRows, contentRows, nextSectionId>>
                   ELSE /\ sectionRows' = kept \o
                            [i \in 1..Len(headers) |->
                                SectionRow(headers, i, document_id,
                                           nextSectionId + i - 1)]
                        /\ contentRows' = contentRows \o
                            Flatten([i \in 1..Len(headers) |->
                                ContentRowsOf(doc_data, headers, i,
                                              nextSectionId + i - 1)])
                        /\ nextSectionId' = nextSectionId + Len(headers)
        /\ UNCHANGED <<doc, sections, seqCall, validation, history, detection,
                       pipeline>>

---------------------------------------------------------------------------
(* Documents and specifications *)

Pages == 1..MaxPage

Coords == 0..MaxCoord

\* the entries a 'texts' list may hold (without their position in the list)
EntriesOf(texts, labels, pages) ==
    [text : texts, label : labels, prov : {"absent", "empty"},
     page_no : {0}, t : {0}, l : {0}]
    \cup [text : texts, label : labels, prov : {"nopage"},
          page_no : {0}, t : Coords, l : Coords]
    \cup [text : texts, label : labels, prov : {"ok"},
          page_no : pages, t : Coords, l : Coords]

\* self_ref of the entry at position i is "#/texts/<i>"
WithRefs(es) ==
    [i \in 1..Len(es) |->
        [ref |-> i, text |-> es[i].text, label |-> es[i].label,
         prov |-> es[i].prov, page_no |-> es[i].page_no,
         t |-> es[i].t, l |-> es[i].l]]

NoResult == [status |-> "none", val |-> <<>>]

NoCall == [op |-> "none", start_page |-> 0, end_page |-> None, val |-> <<>>]

NoDetection ==
    [op |-> "none", text |-> "", item_num |-> 0, status |-> "none",
     found |-> FALSE, pattern |-> ""]

NoPipeline ==
    [op |-> "none", max_retries |-> 0, attempt |-> 0, outcomes |-> <<>>,
     pc |-> "idle", extract |-> "pending", fdd_info |-> "none",
     status |-> "none"]

\* the state after construction, before any call
NothingDone ==
    /\ sections = NoResult
    /\ validation = NoResult
    /\ history = <<>>
    /\ detection = NoDetection
    /\ pipeline = NoPipeline
    /\ documents = <<>>
    /\ sectionRows = <<>>
    /\ contentRows = <<>>
    /\ nextSectionId = 1
    /\ returned = <<>>
    /\ seqCall = NoCall

\* the state after construction, the document loaded from entries of es
InitWith(es) ==
    /\ \E n \in 0..MaxFrags : \E d \in [1..n -> es] : doc = WithRefs(d)
    /\ NothingDone

(* The section analyzer *)

Init == InitWith(EntriesOf(Texts, {SectionHeader, "text"}, Pages))

\* sections = analyzer.analyze_fdd_sections()
Analyze ==
    /\ sections = NoResult
    /\ sections' = analyze_fdd_sections(doc)
    /\ UNCHANGED <<doc, documents, sectionRows, contentRows, nextSectionId,
                   returned, seqCall, validation, history, detection, pipeline>>

Next == Analyze

Spec == Init /\ [][Next]_vars

(* The validator, run on the outcome of the analysis *)

ValidatorTexts ==
    {"ITEM 3: LITIGATION", "ITEM 4: BANKRUPTCY", "BANKRUPTCY", "5. INITIAL FEES"}

\* pages near the start and pages more than the forward margin further on
ValidatorPages ==
    (0..MaxPage) \cup ((ForwardMargin + 1)..(ForwardMargin + MaxPage))

\* section headers at one position of the page
ValidatorEntries ==
    [text : ValidatorTexts, label : {SectionHeader},
     prov : {"absent", "empty", "nopage"}, page_no : {0}, t : {0}, l : {0}]
    \cup [text : ValidatorTexts, label : {SectionHeader}, prov : {"ok"},
          page_no : ValidatorPages, t : {0}, l : {0}]

InitValidator == InitWith(ValidatorEntries)

\* validation_results = analyzer.validate_sections(sections)
Validate ==
    /\ sections.status = "ok"
    /\ validation = NoResult
    /\ validation' = validate_sections(sections.val)
    /\ UNCHANGED <<doc, sections, documents, sectionRows, contentRows,
                   nextSectionId, returned, seqCall, history, detection,
                   pipeline>>

NextValidator == Analyze \/ Validate

SpecValidator == InitValidator /\ [][NextValidator]_vars

(* Analysis and validation run again on the same analyzer *)

\* the run is over (the analysis raised, or the validation ended) and the
\* same calls are made once more on the unchanged analyzer
StartRun ==
    /\ sections.status = "raised" \/ validation.status # "none"
    /\ Len(history) + 1 < MaxCalls
    /\ history' = Append(history, [sections |-> sections,
                                   validation |-> validation])
    /\ sections' = NoResult
    /\ validation' = NoResult
    /\ UNCHANGED <<doc, documents, sectionRows, contentRows, nextSectionId,
                   returned, seqCall, detection, pipeline>>

NextRerun == Analyze \/ Validate \/ StartRun

SpecRerun == InitValidator /\ [][NextRerun]_vars

(* Scenario A: the 23 standard headers, one per item, on increasing pages *)

\* the page of item n: consecutive pages from first on, the distance
\* between the pages of items k and k + 1 being gap
ScenarioPage(n, first, k, gap) ==
    first + (n - 1) + (IF n > k THEN gap - 1 ELSE 0)

ScenarioDoc(first, k, gap) ==
    [n \in Items |->
        [ref |-> n, text |-> StandardTitle[n], label |-> SectionHeader,
         prov |-> "ok", page_no |-> ScenarioPage(n, first, k, gap),
         t |-> 0, l |-> 0]]

InitScenario ==
    /\ \E first \in Pages : \E k \in 1..(NumItems - 1) :
       \E gap \in {1, ForwardMargin, ForwardMargin + 1} :
          doc = ScenarioDoc(first, k, gap)
    /\ NothingDone

SpecScenario == InitScenario /\ [][NextValidator]_vars

(* Item-number detection, called directly *)

\* the header texts and two headers that carry two numbering schemes
DetectTexts == Texts \cup {"5. ITEM 3", "V. ITEM 3"}

InitDetect == doc = <<>> /\ NothingDone

\* analyzer._detect_item_number(text, item_num)
DetectCall ==
    /\ detection = NoDetection
    /\ \E text \in DetectTexts : \E item_num \in Items :
          LET r == DetectItemNumber(text, item_num)
          IN  detection' = [op |-> "detect", text |-> text,
                            item_num |-> item_num, status |-> r.status,
                            found |-> r.found, pattern |-> r.pattern]
    /\ UNCHANGED <<doc, sections, documents, sectionRows, contentRows,
                   nextSectionId, returned, seqCall, validation, history,
                   pipeline>>

NextDetect == DetectCall

SpecDetect == InitDetect /\ [][NextDetect]_vars

(* The processing pipeline: extract_and_validate_info and run_pipeline     *)

\* everything but the pipeline
outsidePipeline ==
    <<doc, sections, documents, sectionRows, contentRows, nextSectionId,
      returned, seqCall, validation, history, detection>>

\* what one attempt can come to: the extracted info passes
\* validate_fdd_info, fails it, or the extractor or the validation raises
Outcomes == {"valid", "invalid", "raise"}

\* IsFinalAttempt holding for no attempt
NeverFinalAttempt(attempt, max_retries) == FALSE

\* line 123: attempt == max_retries - 1
IsFinalAttempt(attempt, max_retries) == attempt = max_retries - 1

InitPipeline == doc = <<>> /\ NothingDone

\* pipeline.extract_and_validate_info(max_retries), called directly
ExtractAndValidateCall ==
    /\ pipeline.op = "none"
    /\ \E max_retries \in 0..MaxRetries :
          pipeline' = [pipeline EXCEPT !.op = "extract",
                                       !.max_retries = max_retries,
                                       !.pc = "loop"]
    /\ UNCHANGED outsidePipeline

\* pipeline.run_pipeline() up to the call of extract_and_validate_info()
RunPipelineCall ==
    /\ pipeline.op = "none"
    /\ pipeline' = [pipeline EXCEPT !.op = "run",
                                    !.max_retries = DefaultRetries,
                                    !.pc = "loop", !.status = "started"]
    /\ UNCHANGED outsidePipeline

\* lines 110-125: one pass of the loop body
Attempt ==
    /\ pipeline.pc = "loop"
    /\ pipeline.attempt < pipeline.max_retries
    /\ \E outcome \in Outcomes :
          pipeline' =
              [pipeline EXCEPT
                  !.outcomes = Append(@, outcome),
                  !.attempt = IF outcome = "valid" THEN @ ELSE @ + 1,
                  !.fdd_info = IF outcome = "valid" THEN "info" ELSE @,
                  !.pc = IF outcome = "valid" THEN "returned"
                         ELSE IF outcome = "raise"
                                 /\ IsFinalAttempt(pipeline.attempt,
                                                   pipeline.max_retries)
                              THEN "raised"
                              ELSE "loop",
                  !.extract = IF outcome = "valid" THEN "returned"
                              ELSE IF outcome = "raise"
                                      /\ IsFinalAttempt(pipeline.attempt,
                                                        pipeline.max_retries)
                                   THEN "raised"
                                   ELSE @]
    /\ UNCHANGED outsidePipeline

\* line 127: return None once range(max_retries) is used up
LoopEnd ==
    /\ pipeline.pc = "loop"
    /\ pipeline.attempt >= pipeline.max_retries
    /\ pipeline' = [pipeline EXCEPT !.pc = "returned", !.extract = "returned",
                                    !.fdd_info = "None"]
    /\ UNCHANGED outsidePipeline

\* lines 231-233 and 262-266: run_pipeline takes what
\* extract_and_validate_info came to
RunCheckInfo ==
    /\ pipeline.op = "run"
    /\ pipeline.pc \in {"returned", "raised"}
    /\ pipeline' =
          IF pipeline.pc = "returned" /\ pipeline.fdd_info = "info"
          THEN [pipeline EXCEPT !.pc = "save_structured"]
          ELSE [pipeline EXCEPT !.pc = "failed", !.status = "failed"]
    /\ UNCHANGED outsidePipeline

\* lines 236-267: save_structured_data, analyze_and_organize_sections,
\* save_grouped_sections (followed by results.update) and the writing of
\* the final results, each of which may raise; then return results
RunStep ==
    /\ pipeline.op = "run"
    /\ pipeline.pc \in {"save_structured", "analyze", "save_grouped",
                        "save_results"}
    /\ \E raises \in BOOLEAN :
          pipeline' =
              IF raises
              THEN [pipeline EXCEPT !.pc = "failed", !.status = "failed"]
              ELSE IF pipeline.pc = "save_structured"
              THEN [pipeline EXCEPT !.pc = "analyze"]
              ELSE IF pipeline.pc = "analyze"
              THEN [pipeline EXCEPT !.pc = "save_grouped"]
              ELSE IF pipeline.pc = "save_grouped"
              THEN [pipeline EXCEPT !.pc = "save_results",
                                    !.status = "completed"]
              ELSE [pipeline EXCEPT !.pc = "completed"]
    /\ UNCHANGED outsidePipeline

NextPipeline ==
    \/ ExtractAndValidateCall
    \/ RunPipelineCall
    \/ Attempt
    \/ LoopEnd
    \/ RunCheckInfo
    \/ RunStep

SpecPipeline == InitPipeline /\ [][NextPipeline]_vars

\* every call of the extractor and every later step returns or raises
SpecPipelineLive == SpecPipeline /\ WF_vars(NextPipeline)

(* The Sequencer, called directly *)

InitSequencer ==
    InitWith(EntriesOf({"BANKRUPTCY"}, {"text"}, Pages \cup {FirstPages + 1}))

StartPages == 0..(MaxPage + 1)

EndPages == {None} \cup {Some(p) : p \in StartPages}

\* organizer._get_sorted_texts(doc_data, start_page, end_page)
SortedTextsCall ==
    /\ seqCall = NoCall
    /\ \E start_page \in StartPages : \E end_page \in EndPages :
          seqCall' = [op |-> "sorted", start_page |-> start_page,
                      end_page |-> end_page,
                      val |-> GetSortedTexts(doc, start_page, end_page)]
    /\ UNCHANGED <<doc, sections, documents, sectionRows, contentRows,
                   nextSectionId, returned, validation, history, detection,
                   pipeline>>

\* extractor.extract_first_20_pages()
First20Call ==
    /\ seqCall = NoCall
    /\ seqCall' = [op |-> "first20", start_page |-> 0, end_page |-> None,
                   val |-> ExtractFirst20Pages(doc)]
    /\ UNCHANGED <<doc, sections, documents, sectionRows, contentRows,
                   nextSectionId, returned, validation, history, detection,
                   pipeline>>

NextSequencer == SortedTextsCall \/ First20Call

SpecSequencer == InitSequencer /\ [][NextSequencer]_vars

(* The document organizer *)

OrganizerTexts == {"ITEM 3: LITIGATION", "ITEM 4: BANKRUPTCY", "TABLE OF CONTENTS"}

InitOrganizer ==
    InitWith(EntriesOf(OrganizerTexts, {SectionHeader}, Pages)
             \cup EntriesOf({"BANKRUPTCY"}, {"text"}, Pages))

NextOrganizer == \E overwrite \in BOOLEAN : ProcessDocument(FilePath, overwrite)

SpecOrganizer == InitOrganizer /\ [][NextOrganizer]_vars

(* The database, filled from two files *)

InitDatabase ==
    InitWith(EntriesOf({"ITEM 3: LITIGATION"}, {SectionHeader}, Pages)
             \cup EntriesOf({"BANKRUPTCY"}, {"text"}, Pages))

NextDatabase ==
    \E json_path \in FilePaths : \E overwrite \in BOOLEAN :
        ProcessDocument(json_path, overwrite)

SpecDatabase == InitDatabase /\ [][NextDatabase]_vars

---------------------------------------------------------------------------
(* Claims about analyze_fdd_sections (specification Spec)                  *)

Analyzed == sections.status = "ok"

HeaderPositions == {i \in 1..Len(doc) : IsHeader(doc[i])}

\* s is in reading order: no element's key is smaller than an earlier one's
InReadingOrder(s) ==
    \A i \in 1..Len(s) : \A j \in (i + 1)..Len(s) : ~KeyLess(s[j], s[i])

\* the headers in the order in which the scan of analyze_fdd_sections meets them
AnalyzerVisit(d) ==
    LET hs == SelectSeq(d, IsHeader)
    IN  [i \in 1..Len(hs) |-> Positioned(hs[i])]

\* the page analyze_fdd_sections reports for the entry at position i
ReportedPage(i) == IF doc[i].prov = "ok" THEN doc[i].page_no ELSE EmptyPage

\* C1: for every document, analyze_fdd_sections returns exactly 23 entries
\* whose item numbers are 1, 2, ..., 23 in increasing order, none repeated
\* and none skipped.
C1_Completeness ==
    sections.status # "none" =>
        /\ sections.status = "ok"
        /\ DOMAIN sections.val = 1..23
        /\ \A n \in 1..23 : sections.val[n].item_num = n

\* C2: whenever some header exact-matches item n, the entry for n has
\* match_type EXACT, never FUZZY, even if a header that only fuzzy-matches n
\* comes earlier in the scan.
C2_ExactBeforeFuzzy ==
    Analyzed =>
        \A n \in Items :
            (\E i \in HeaderPositions : ExactMatch(doc[i].text, n))
                => sections.val[n].match_type = "EXACT"

\* the position of the header that is first in reading order among the
\* headers that exact-match item n
FirstExactInReadingOrder(n) ==
    LET Hit(f) == IsHeader(f) /\ ExactMatch(f.text, n)
        hits == SelectSeq(doc, Hit)
    IN  SortByKey([i \in 1..Len(hits) |-> Positioned(hits[i])])[1].self_ref

\* C3: when several headers exact-match the same item number, the exact pass
\* selects the one that is first in reading order (lowest page_no, then
\* highest top, then lowest left), wherever the entries stand in the list.
\* (Stated for documents whose headers all carry a page number.)
C3_FirstInReadingOrder ==
    (Analyzed /\ \A i \in HeaderPositions : doc[i].prov = "ok") =>
        \A n \in Items :
            sections.val[n].match_type = "EXACT"
                => sections.val[n].page_no = ReportedPage(FirstExactInReadingOrder(n))

\* C4: the exact pass accepts a header for item n with match_type EXACT
\* whenever any numbering scheme extracts n from it: "ITEM n", "SECTION n",
\* a leading "n." or a roman-numeral prefix equal to n.
C4_EverySchemeExact ==
    Analyzed =>
        \A i \in HeaderPositions : \A n \in SchemeNumbers(doc[i].text) :
            sections.val[n].match_type = "EXACT"

\* some header passes the exact test or the fuzzy test for item n
SomeHeaderMatches(n) ==
    \E i \in HeaderPositions :
        ExactMatch(doc[i].text, n) \/ FuzzyMatchHeader(doc[i].text, n)

\* C5: an entry has match_type MISSING exactly when no header passes the
\* exact test or the fuzzy test for its item, and a MISSING entry carries no
\* page and no header text (page 0, text "NOT FOUND", found false).
C5_MissingIffNoMatch ==
    Analyzed =>
        \A n \in Items :
            /\ sections.val[n].match_type = "MISSING" <=> ~SomeHeaderMatches(n)
            /\ sections.val[n].match_type = "MISSING" =>
                  /\ sections.val[n].found = FALSE
                  /\ sections.val[n].page_no = 0
                  /\ sections.val[n].text = "NOT FOUND"
            /\ sections.val[n].match_type # "MISSING" =>
                  sections.val[n].found = TRUE

\* witness of C5: an analysis with a matched header, with an item that is
\* MISSING although the document has headers, and with an item matched by
\* the fuzzy test only
C5_Witness ==
    /\ Analyzed
    /\ Len(doc) = 2
    /\ sections.val[3].match_type = "EXACT"
    /\ sections.val[9].match_type = "FUZZY"
    /\ sections.val[5].match_type = "MISSING"
    /\ \E i \in HeaderPositions : doc[i].text = "SECTION 5"

\* C9: the same reading order (page_no ascending, top descending, left
\* ascending) is applied wherever reading order matters: the header scan of
\* analyze_fdd_sections, the organizer's header identification, section
\* content assignment and first-20-pages extraction.
\* (Stated for documents whose entries all carry a page number.)
C9_OneReadingOrder ==
    (Analyzed /\ \A i \in 1..Len(doc) : doc[i].prov = "ok") =>
        /\ InReadingOrder(AnalyzerVisit(doc))
        /\ InReadingOrder(IdentifySectionHeaders(doc))
        /\ InReadingOrder(GetSortedTexts(doc, 0, None))
        /\ InReadingOrder(ExtractFirst20Pages(doc))

---------------------------------------------------------------------------
(* Claims about the Sequencer (specification SpecSequencer)                *)

\* how often the entry at position i of the document occurs in the result s
Occurrences(s, i) == Cardinality({k \in 1..Len(s) : s[k].self_ref = i})

\* the position in the result s of the entry at position i of the document
PositionIn(s, i) == CHOOSE k \in 1..Len(s) : s[k].self_ref = i

\* C7: _get_sorted_texts(start_page, end_page) returns a permutation of
\* exactly the entries whose page_no satisfies start_page <= page_no <
\* end_page (no upper bound when end_page is None): no such entry is
\* omitted, no other entry is included, none is duplicated.  The page_no of
\* an entry is prov[0].page_no, 0 when prov[0] has no page_no; an entry
\* without prov has no page_no.
C7_ExactlyTheRange ==
    seqCall.op = "sorted" =>
        /\ \A i \in 1..Len(doc) :
              LET p == IF doc[i].prov = "ok" THEN doc[i].page_no ELSE 0
                  inside ==
                      /\ doc[i].prov \in {"ok", "nopage"}
                      /\ seqCall.start_page <= p
                      /\ (seqCall.end_page # None => p < seqCall.end_page[1])
              IN  Occurrences(seqCall.val, i) = IF inside THEN 1 ELSE 0
        /\ \A k \in 1..Len(seqCall.val) :
              /\ seqCall.val[k].self_ref \in 1..Len(doc)
              /\ seqCall.val[k].text = doc[seqCall.val[k].self_ref].text
              /\ seqCall.val[k].top = doc[seqCall.val[k].self_ref].t
              /\ seqCall.val[k].left = doc[seqCall.val[k].self_ref].l

\* witness of C7: a call with both bounds that keeps one entry, drops an
\* entry on the page end_page and so reorders nothing by accident
C7_Witness ==
    /\ seqCall.op = "sorted"
    /\ seqCall.end_page # None
    /\ Len(doc) = 2
    /\ Len(seqCall.val) = 1
    /\ \E i \in 1..Len(doc) :
          doc[i].prov = "ok" /\ doc[i].page_no = seqCall.end_page[1]
    /\ seqCall.val[1].page_no = seqCall.start_page

\* C8: the sort of the Sequencer is stable: two entries with identical
\* (page_no, top, left) appear in the output in the same relative order as
\* in the document's list.
C8_StableSort ==
    seqCall.op = "sorted" =>
        \A i \in 1..Len(doc) : \A j \in (i + 1)..Len(doc) :
            ( /\ Occurrences(seqCall.val, i) = 1
              /\ Occurrences(seqCall.val, j) = 1
              /\ PageOf(doc[i]) = PageOf(doc[j])
              /\ doc[i].t = doc[j].t
              /\ doc[i].l = doc[j].l )
            => PositionIn(seqCall.val, i) < PositionIn(seqCall.val, j)

\* witness of C8: two entries with one key are both in the output
C8_Witness ==
    /\ seqCall.op = "sorted"
    /\ Len(seqCall.val) = 2
    /\ seqCall.val[1].page_no = seqCall.val[2].page_no
    /\ seqCall.val[1].top = seqCall.val[2].top
    /\ seqCall.val[1].left = seqCall.val[2].left
    /\ seqCall.val[1].page_no > 0

---------------------------------------------------------------------------
(* Claims about the Section Builder (specification SpecOrganizer)          *)

\* the sections stored for the document, in the order of their ids
StoredSections == RowsOfDocument(sectionRows, 1)

\* C6: the content list of every section is ordered by the reading-order
\* key: non-decreasing page_no; within one page_no, non-increasing top;
\* within one page_no and top, non-decreasing left.
C6_ContentInReadingOrder ==
    \A a \in 1..Len(contentRows) : \A b \in 1..Len(contentRows) :
        ( /\ contentRows[a].section_id = contentRows[b].section_id
          /\ contentRows[a].sequence_order < contentRows[b].sequence_order )
        => /\ contentRows[a].page_number <= contentRows[b].page_number
           /\ contentRows[a].page_number = contentRows[b].page_number
                 => contentRows[a].bbox_top >= contentRows[b].bbox_top
           /\ ( /\ contentRows[a].page_number = contentRows[b].page_number
                /\ contentRows[a].bbox_top = contentRows[b].bbox_top )
                 => contentRows[a].bbox_left <= contentRows[b].bbox_left

\* witness of C6: a section whose two content entries stand on one page in
\* the list in the opposite of reading order, the higher one further right
C6_Witness ==
    /\ Len(doc) = 2
    /\ doc[1].prov = "ok" /\ doc[2].prov = "ok"
    /\ doc[1].page_no = doc[2].page_no
    /\ doc[1].t < doc[2].t
    /\ doc[1].l < doc[2].l
    /\ \E a \in 1..Len(contentRows) : \E b \in 1..Len(contentRows) :
          /\ contentRows[a].section_id = contentRows[b].section_id
          /\ contentRows[a].sequence_order < contentRows[b].sequence_order
          /\ contentRows[a].original_ref = 2
          /\ contentRows[b].original_ref = 1

\* the smallest item number above n that has a stored section, 0 if none
NextMatchedItem(n) ==
    LET above == {m \in Items : m > n /\ \E k \in 1..Len(StoredSections) :
                                    StoredSections[k].item_number = Some(m)}
    IN  IF above = {} THEN 0
        ELSE CHOOSE m \in above : \A q \in above : m <= q

HeadersOf(d) == SelectSeq(d, IsHeader)

ContentOf(id) ==
    LET Of(c) == c.section_id = id IN SelectSeq(contentRows, Of)

\* how many content rows of section id come from the entry at position i
ContentOccurrences(id, i) ==
    Cardinality({k \in 1..Len(ContentOf(id)) : ContentOf(id)[k].original_ref = i})

\* C11 as claimed: the content list of a stored section is exactly the
\* entries whose page_no lies in [start_page, end_page), start_page and
\* end_page being the bounds recorded for the section; no content entry has
\* page_no >= the recorded end_page.  (Stated for documents whose entries
\* all carry a page number.)
C11_WithinRecordedBounds ==
    (\A i \in 1..Len(doc) : doc[i].prov = "ok") =>
        \A k \in 1..Len(StoredSections) :
            LET r == StoredSections[k]
            IN  r.end_page # None =>
                    \A i \in 1..Len(doc) :
                        ContentOccurrences(r.id, i) =
                            IF r.start_page <= doc[i].page_no
                               /\ doc[i].page_no < r.end_page[1]
                            THEN 1 ELSE 0

\* C11 as amended: the content list of a stored section is exactly the
\* entries with positional data whose page_no satisfies
\* start_page <= page_no <= end_page for the recorded bounds, that is, the
\* half-open range up to the page of the next header; with a null end_page
\* it is every such entry with page_no >= start_page.
C11_ThroughRecordedEndPage ==
    \A k \in 1..Len(StoredSections) :
        LET r == StoredSections[k]
        IN  \A i \in 1..Len(doc) :
                ContentOccurrences(r.id, i) =
                    IF /\ HasProv(doc[i])
                       /\ r.start_page <= PageOf(doc[i])
                       /\ (r.end_page # None => PageOf(doc[i]) <= r.end_page[1])
                    THEN 1 ELSE 0

\* witness of C11: a section with a recorded end_page that holds an entry
\* of the page end_page and leaves out the entry of the next page
C11_Witness ==
    /\ Len(doc) = 2
    /\ Len(StoredSections) = 2
    /\ StoredSections[1].start_page = 1
    /\ StoredSections[1].end_page = Some(1)
    /\ Len(ContentOf(StoredSections[1].id)) = 1
    /\ ContentOf(StoredSections[1].id)[1].page_number = 1
    /\ StoredSections[2].start_page = 2

\* C12: for any two sections of items i < j stored for a document, the
\* section of i ends before the section of j starts:
\* Section[i].end_page <= Section[j].start_page (a null end_page is
\* open-ended and ends before nothing), also when the headers stand out of
\* item-number order.  (Stated for documents whose headers all carry a page
\* number and name no item twice.)
C12_MonotonicCoverage ==
    ( /\ \A i \in HeaderPositions : doc[i].prov = "ok"
      /\ \A i \in HeaderPositions : \A j \in HeaderPositions :
            (i # j /\ StandardNumber(doc[i].text) > 0)
                => StandardNumber(doc[i].text) # StandardNumber(doc[j].text) )
    =>
        \A a \in 1..Len(StoredSections) : \A b \in 1..Len(StoredSections) :
            LET ra == StoredSections[a]
                rb == StoredSections[b]
            IN  ( /\ ra.item_number # None
                  /\ rb.item_number # None
                  /\ ra.item_number[1] < rb.item_number[1] )
                => /\ ra.end_page # None
                   /\ ra.end_page[1] <= rb.start_page

\* C13: after a document is processed its stored sections are one section
\* per canonical item 1..23 and nothing else: every item number has exactly
\* one section (an item without header an empty one) and no section is
\* without item number.
C13_OneSectionPerItem ==
    (returned # <<>> /\ returned[1].status = "ok" /\ HeaderPositions # {}) =>
        /\ \A n \in Items :
              Cardinality({k \in 1..Len(StoredSections) :
                              StoredSections[k].item_number = Some(n)}) = 1
        /\ \A k \in 1..Len(StoredSections) :
              StoredSections[k].item_number # None

---------------------------------------------------------------------------
(* Claims about validate_sections (specifications SpecValidator and        *)
(* SpecScenario)                                                           *)

Validated == validation.status = "ok"

\* the matched items below item n
MatchedBefore(n) == {m \in 1..(n - 1) : sections.val[m].found}

\* the page of the previous matched item, 0 when no item below n is matched
PreviousMatchedPage(n) ==
    IF MatchedBefore(n) = {} THEN 0
    ELSE sections.val[CHOOSE m \in MatchedBefore(n) :
                          \A q \in MatchedBefore(n) : q <= m].page_no

\* the result for item n carries an issue of the given kind
HasIssue(n, kind) ==
    \E i \in 1..Len(validation.val[n].issues) :
        validation.val[n].issues[i] = kind

C15_LargeGap ==
    Validated =>
        \A n \in Items :
            HasIssue(n, "Large page gap")
            <=> /\ sections.val[n].found
                /\ MatchedBefore(n) # {}
                /\ sections.val[n].page_no - PreviousMatchedPage(n) > 20

\* C16: a missing-critical-item issue is recorded for an entry exactly when
\* the entry is MISSING and its item number is one of 1..7, 21, 22, 23; a
\* MISSING entry of another item has no issue at all.
C16_CriticalMissing ==
    Validated =>
        \A n \in Items :
            /\ HasIssue(n, "Missing critical FDD Item")
               <=> /\ sections.val[n].match_type = "MISSING"
                   /\ n \in (1..7) \cup (21..23)
            /\ ( /\ sections.val[n].match_type = "MISSING"
                 /\ n \notin (1..7) \cup (21..23) )
               => validation.val[n].issues = <<>>

\* witness of C16: item 19 MISSING without issue, item 21 MISSING with the
\* issue, item 3 matched
C16_Witness ==
    /\ Validated
    /\ sections.val[3].found
    /\ sections.val[19].match_type = "MISSING"
    /\ validation.val[19].issues = <<>>
    /\ sections.val[21].match_type = "MISSING"
    /\ validation.val[21].issues = <<"Missing critical FDD Item">>

\* C17: a formatting issue is recorded for an entry exactly when the entry
\* is matched (EXACT or FUZZY) and its item number is no standalone token
\* of the header text; a matched entry whose header holds the number as a
\* standalone token and every MISSING entry have no such issue.
C17_FormatIssue ==
    Validated =>
        \A n \in Items :
            HasIssue(n, "Item number not found in header text")
            <=> /\ sections.val[n].match_type \in {"EXACT", "FUZZY"}
                /\ \A i \in 1..Len(Tokens(sections.val[n].text)) :
                      Tokens(sections.val[n].text)[i] # ToString(n)

\* witness of C17: item 4 matched by "BANKRUPTCY" has the issue, item 5
\* matched by "5. INITIAL FEES" has not
C17_Witness ==
    /\ Validated
    /\ sections.val[4].match_type = "FUZZY"
    /\ sections.val[4].text = "BANKRUPTCY"
    /\ HasIssue(4, "Item number not found in header text")
    /\ sections.val[5].match_type = "FUZZY"
    /\ sections.val[5].text = "5. INITIAL FEES"
    /\ validation.val[5].issues = <<>>

\* C18: validate_sections never fails: for every list that
\* analyze_fdd_sections returns it returns one result per entry, in the
\* same item order, each with an issue list.
C18_ValidateNeverFails ==
    validation.status # "none" =>
        /\ validation.status = "ok"
        /\ Len(validation.val) = Len(sections.val)
        /\ \A n \in 1..Len(validation.val) :
              validation.val[n].item_num = sections.val[n].item_num

\* C19: Scenario A: for the 23 headers "ITEM n: <standard title>", one per
\* item, on strictly increasing pages, the analysis gives 23 EXACT entries,
\* none MISSING, and the validation gives no issue on any entry.  (Stated
\* for page distances of at most 20.)
C19_ScenarioA ==
    ( /\ validation.status # "none"
      /\ \A n \in 1..(NumItems - 1) :
            doc[n + 1].page_no - doc[n].page_no <= 20 )
    =>
        /\ Validated
        /\ \A n \in Items :
              /\ sections.val[n].match_type = "EXACT"
              /\ validation.val[n].issues = <<>>

\* C20: an entry without positional data never aborts processing and is
\* kept with page_no, top and left 0: every process_document call
\* completes, and a section that starts at page 0 and is open-ended holds
\* every entry of the document that has no prov.
C20_MalformedFragmentKept ==
    /\ \A c \in 1..Len(returned) : returned[c].status = "ok"
    /\ \A k \in 1..Len(StoredSections) :
          ( /\ StoredSections[k].start_page = 0
            /\ StoredSections[k].end_page = None )
          => \A i \in 1..Len(doc) :
                ~HasProv(doc[i]) => ContentOccurrences(StoredSections[k].id, i) = 1

---------------------------------------------------------------------------
(* Further claims about the analyzer                                       *)

\* C21: for a document without any entry labelled section_header the
\* analysis raises no error and all 23 entries are MISSING.
C21_NoHeadersAllMissing ==
    (sections.status # "none" /\ HeaderPositions = {}) =>
        /\ sections.status = "ok"
        /\ \A n \in Items : sections.val[n].match_type = "MISSING"

\* C22: _detect_item_number never raises, also when the roman-numeral
\* scheme matches: it reports a match exactly when some numbering scheme
\* extracts the sought item number from the header, with the first such
\* scheme in the order standard, section, numbered, roman.
C22_DetectNeverRaises ==
    detection.op = "detect" =>
        /\ detection.status = "ok"
        /\ detection.found <=> detection.item_num \in SchemeNumbers(detection.text)
        /\ detection.found =>
              detection.pattern =
                  IF StandardNumber(detection.text) = detection.item_num
                  THEN "standard"
                  ELSE IF SectionNumber(detection.text) = detection.item_num
                  THEN "section"
                  ELSE IF NumberedNumber(detection.text) = detection.item_num
                  THEN "numbered"
                  ELSE "roman"

---------------------------------------------------------------------------
(* Claims about the database (specifications SpecDatabase, SpecOrganizer)  *)

\* the sections stored for the document of a file
SectionsOf(json_path) ==
    RowsOfDocument(sectionRows, DocumentId(documents, json_path))

\* the calls made so far for a file
CallsFor(json_path) ==
    {c \in 1..Len(returned) : returned[c].call.json_path = json_path}

\* C24: after any sequence of process_document calls the documents table
\* holds exactly one row per distinct file path processed, and every call
\* that returns for a file path returns the id of that row, the same id as
\* the first such call.
C24_OneRowPerFilePath ==
    /\ \A i \in 1..Len(documents) : \A j \in 1..Len(documents) :
          documents[i].file_path = documents[j].file_path => i = j
    /\ \A i \in 1..Len(documents) : \A j \in 1..Len(documents) :
          documents[i].id = documents[j].id => i = j
    /\ {documents[i].file_path : i \in 1..Len(documents)}
          = {returned[c].call.json_path : c \in 1..Len(returned)}
    /\ \A c \in 1..Len(returned) : \A d \in 1..Len(returned) :
          ( /\ returned[c].status = "ok"
            /\ returned[d].status = "ok"
            /\ returned[c].call.json_path = returned[d].call.json_path )
          => /\ returned[c].id = returned[d].id
             /\ \E i \in 1..Len(documents) :
                   /\ documents[i].id = returned[c].id
                   /\ documents[i].file_path = returned[c].call.json_path

\* witness of C24: both files processed, one of them twice, with and
\* without overwrite
C24_Witness ==
    /\ Len(returned) = 3
    /\ Len(documents) = 2
    /\ returned[1].call.json_path = OtherFilePath
    /\ returned[2].call = [json_path |-> FilePath, overwrite |-> FALSE]
    /\ returned[3].call = [json_path |-> FilePath, overwrite |-> TRUE]
    /\ returned[2].status = "ok" /\ returned[3].status = "ok"
    /\ returned[3].id = 2

\* C25: a process_document call with overwrite=False for a document that
\* already has sections changes nothing: the sections rows and the
\* section_content rows of all documents are the same after the call.
C25_NoOverwriteChangesNothing ==
    [][ ( /\ Len(returned') = Len(returned) + 1
          /\ ~returned'[Len(returned')].call.overwrite
          /\ SectionsOf(returned'[Len(returned')].call.json_path) # <<>> )
        => /\ sectionRows' = sectionRows
           /\ contentRows' = contentRows
           /\ nextSectionId' = nextSectionId
           /\ documents' = documents ]_vars

\* witness of C25: the document has been processed and then processed again
\* without overwrite, its two sections still stored
C25_Witness ==
    /\ Len(returned) = 2
    /\ returned[1].call.json_path = FilePath
    /\ returned[2].call = [json_path |-> FilePath, overwrite |-> FALSE]
    /\ returned[2].status = "ok"
    /\ Len(SectionsOf(FilePath)) = 2
    /\ nextSectionId = 3

\* C26: however often an unchanged document is processed again with
\* overwrite=True, the number of sections recorded for it is the number
\* recorded by its first processing, one per section header: old sections
\* are replaced, not accumulated.
C26_OverwriteReplaces ==
    \A json_path \in FilePaths :
        (\E c \in CallsFor(json_path) : returned[c].status = "ok")
            => Len(SectionsOf(json_path)) = Len(HeadersOf(Content(json_path)))

\* witness of C26: the document processed three times, twice with
\* overwrite, its two sections being the rows of the third processing
C26_Witness ==
    /\ Len(returned) = 3
    /\ \A c \in 1..3 : returned[c].call.json_path = FilePath
                       /\ returned[c].status = "ok"
    /\ returned[2].call.overwrite /\ returned[3].call.overwrite
    /\ Len(SectionsOf(FilePath)) = 2
    /\ SectionsOf(FilePath)[1].id = 5

\* C27: referential integrity: after any sequence of process_document
\* calls every section_content row refers to a section row that exists, so
\* the content stored does not grow when a document is processed again
\* with overwrite=True.
C27_ReferentialIntegrity ==
    \A c \in 1..Len(contentRows) :
        \E r \in 1..Len(sectionRows) :
            sectionRows[r].id = contentRows[c].section_id

\* the smallest page of a section header, as the organizer reads it
FirstHeaderPage ==
    CHOOSE p \in {PageOf(doc[i]) : i \in HeaderPositions} :
        \A i \in HeaderPositions : p <= PageOf(doc[i])

\* in how many content rows of the stored sections entry i of the document
\* is kept
StoredOccurrences(i) ==
    Cardinality({c \in 1..Len(contentRows) :
                    /\ contentRows[c].original_ref = i
                    /\ \E k \in 1..Len(StoredSections) :
                          StoredSections[k].id = contentRows[c].section_id})

\* C28: the section content partitions the document from the first header
\* on: once the document is processed, every entry that has positional
\* data and whose page_no is at least the page of the first header in
\* reading order is content of exactly one section, and every other entry
\* of none.
C28_Partition ==
    StoredSections # <<>> =>
        \A i \in 1..Len(doc) :
            StoredOccurrences(i) =
                IF HasProv(doc[i]) /\ PageOf(doc[i]) >= FirstHeaderPage
                THEN 1 ELSE 0

\* witness of C28: a line of text on the page before the first header is in
\* no section, the lines from the header on are in one
C28_Witness ==
    /\ Len(doc) = 2
    /\ Len(returned) = 1
    /\ IsHeader(doc[2]) /\ doc[2].prov = "ok" /\ doc[2].page_no = 2
    /\ ~IsHeader(doc[1]) /\ doc[1].prov = "ok" /\ doc[1].page_no = 1
    /\ Len(StoredSections) = 1
    /\ StoredOccurrences(1) = 0
    /\ StoredOccurrences(2) = 1

\* C29: every stored section with a non-null end_page has
\* start_page <= end_page, and every stored section has content, at least
\* its own header, also when two headers lie on one page.  (Stated for
\* documents whose entries all carry a page number.)
C29_SectionsNotEmpty ==
    (\A i \in 1..Len(doc) : doc[i].prov = "ok") =>
        \A k \in 1..Len(StoredSections) :
            /\ StoredSections[k].end_page # None
                  => StoredSections[k].start_page <= StoredSections[k].end_page[1]
            /\ \E j \in 1..Len(ContentOf(StoredSections[k].id)) :
                  ContentOf(StoredSections[k].id)[j].text_content
                      = StoredSections[k].header_text

---------------------------------------------------------------------------
(* Claim about the pipeline (specification SpecPipelineLive)               *)

\* extract_and_validate_info has returned or raised
ExtractEnded == pipeline.extract # "pending"

\* the call made on the pipeline has returned or raised
PipelineEnded ==
    \/ pipeline.op = "extract" /\ pipeline.pc \in {"returned", "raised"}
    \/ pipeline.op = "run" /\ pipeline.pc \in {"completed", "failed"}

\* the attempts of extract_and_validate_info: at most max_retries calls of
\* the extractor; a result that passes validation ends the loop at once; a
\* failed validation or an exception before the final attempt is followed
\* by a further attempt; None is returned when the final attempt fails
\* validation; the exception of the final attempt, and no other, is raised
\* again
PipelineAttempts ==
    LET n == Len(pipeline.outcomes) IN
    /\ n <= pipeline.max_retries
    /\ \A k \in 1..(n - 1) : pipeline.outcomes[k] \in {"invalid", "raise"}
    /\ (n > 0 /\ pipeline.outcomes[n] = "valid")
          <=> (ExtractEnded /\ pipeline.fdd_info = "info")
    /\ pipeline.fdd_info = "info" => pipeline.extract = "returned"
    /\ (pipeline.extract = "returned" /\ pipeline.fdd_info = "None")
          => /\ n = pipeline.max_retries
             /\ n > 0 => pipeline.outcomes[n] = "invalid"
    /\ pipeline.extract = "raised"
          <=> /\ n > 0
              /\ n = pipeline.max_retries
              /\ pipeline.outcomes[n] = "raise"
    /\ ExtractEnded <=> pipeline.pc \notin {"idle", "loop"}

\* run_pipeline goes on to the sections, and returns, only with a
\* validated result; what it returns has status 'completed'; in every
\* other case it raises, with status 'failed'
PipelineRun ==
    pipeline.op = "run" =>
        /\ pipeline.pc \in {"save_structured", "analyze", "save_grouped",
                            "save_results", "completed"}
              => /\ pipeline.fdd_info = "info"
                 /\ pipeline.outcomes[Len(pipeline.outcomes)] = "valid"
        /\ pipeline.pc = "completed" => pipeline.status = "completed"
        /\ pipeline.status = "completed"
              => pipeline.pc \in {"save_results", "completed"}
        /\ pipeline.pc = "failed" <=> pipeline.status = "failed"
        /\ (pipeline.pc = "failed" /\ pipeline.fdd_info = "info")
              => pipeline.outcomes[Len(pipeline.outcomes)] = "valid"

\* C30: extract_and_validate_info(max_retries) calls the extractor at most
\* max_retries times and always ends: it returns the first result that
\* passes validate_fdd_info, retries after a failed validation or an
\* exception that is not the final attempt's, returns None when the final
\* attempt fails validation and raises only what the final attempt raises;
\* run_pipeline starts the section analysis and returns (with status
\* 'completed') only with a validated result, and raises otherwise.
C30_RetriesAndTermination ==
    /\ [](PipelineAttempts /\ PipelineRun)
    /\ (pipeline.op # "none") ~> PipelineEnded

\* witness of C30: run_pipeline completed after an exception and a failed
\* validation were retried
C30_Witness ==
    /\ pipeline.op = "run"
    /\ pipeline.pc = "completed"
    /\ pipeline.outcomes = <<"raise", "invalid", "valid">>

====
